---- MODULE Spec2Model ----
(***************************************************************************)
(* ConsistentlyInteractive (lighthouse-core/gather/computed/metrics/       *)
(* consistently-interactive.js) as a state machine: one run of             *)
(* computeObservedMetric over one trace, with the while loop of            *)
(* findOverlappingQuietPeriods taken one iteration per step.               *)
(*                                                                         *)
(* Units follow the source: traceOfTab.timestamps are microseconds, long   *)
(* tasks are milliseconds relative to navigationStart, quiet periods are   *)
(* milliseconds on the clock of the timestamps.  Timestamps are drawn as   *)
(* multiples of 1000 so that JavaScript's x / 1000 is the exact integer    *)
(* x \div 1000.                                                            *)
(***************************************************************************)
EXTENDS Integers, Sequences, FiniteSets

VARIABLES
    traceOfTab,           \* timestamps of the trace (microseconds)
    topLevelEvents,       \* TracingProcessor.getMainThreadTopLevelEvents(traceOfTab)
    recorderQuietPeriods, \* NetworkRecorder.findNetworkQuietPeriods(networkRecords, 2, traceEnd)
    pc,                   \* position in computeObservedMetric / findOverlappingQuietPeriods
    longTasks,            \* events with duration >= 50
    cpuQuietPeriods,      \* filtered CPU candidates (returned in QuietPeriodInfo)
    networkQuietPeriods,  \* filtered network candidates (returned in QuietPeriodInfo)
    cpuQueue,             \* copy of cpuQuietPeriods the cursor shifts from
    networkQueue,         \* copy of networkQuietPeriods the cursor shifts from
    cpuCandidate,
    networkCandidate,
    branch,               \* which comparison the last loop iteration evaluated
    advances,             \* number of queue shifts made inside the loop
    quietPeriodInfo,      \* value returned by findOverlappingQuietPeriods
    error,                \* LHError kind thrown, or "none"
    result                \* {timing, timestamp} returned, or NoResult

vars == <<traceOfTab, topLevelEvents, recorderQuietPeriods, pc, longTasks,
          cpuQuietPeriods, networkQuietPeriods, cpuQueue, networkQueue,
          cpuCandidate, networkCandidate, branch, advances, quietPeriodInfo,
          error, result>>

(***************************************************************************)
(* Program constants and JavaScript values                                 *)
(***************************************************************************)
REQUIRED_QUIET_WINDOW == 5000
MIN_LONG_TASK_DURATION == 50

\* A timestamp missing from traceOfTab.timestamps (JavaScript undefined).
undefined == -1

\* What Array.prototype.shift returns on an empty array.
undefinedPeriod == [start |-> undefined, end |-> undefined]

NoInfo == [cpuQuietPeriod |-> undefinedPeriod, networkQuietPeriod |-> undefinedPeriod,
           cpuQuietPeriods |-> <<>>, networkQuietPeriods |-> <<>>]

NoResult == [timing |-> undefined, timestamp |-> undefined]

\* Variant: only a missing timestamp is rejected, 0 is let through.
Falsy_undefinedOnly(x) == x = undefined

\* !x for a numeric timestamp: true for undefined and for 0.
Falsy(x) == x = undefined \/ x = 0

\* x / 1000 on a timestamp in microseconds.
ToMs(x) == x \div 1000

Max(a, b) == IF a >= b THEN a ELSE b

Period(s, e) == [start |-> s, end |-> e]

(***************************************************************************)
(* Bounds and input domains                                                *)
(***************************************************************************)
MaxEvents == 2
MaxNetworkPeriods == 2

NavigationStarts == {0, 1000000}
TraceEnds == {10000000, 22000000}
FirstMeaningfulPaints == {undefined, 0, 2000000, 5000000}
DomContentLoadeds == {undefined, 0, 2500000, 9000000}

EventStarts == {3000, 5000, 11000, 16000}
EventDurations == {40, 100, 3000}
NetworkInstants == {0, 3100, 5000, 8100, 10000, 17000, 22000}

\* The members of a finite set of intervals with distinct starts, in
\* ascending order of start.
RECURSIVE SortByStart(_)
SortByStart(S) ==
    IF S = {} THEN <<>>
    ELSE LET first == CHOOSE p \in S : \A q \in S : p.start <= q.start
         IN  <<first>> \o SortByStart(S \ {first})

\* The sorted instants a1 < b1 < a2 < b2 < ... as the periods [a1, b1], [a2, b2], ...
RECURSIVE PairUp(_)
PairUp(S) ==
    IF S = {} THEN <<>>
    ELSE LET a == CHOOSE x \in S : \A y \in S : x <= y
             b == CHOOSE x \in S \ {a} : \A y \in S \ {a} : x <= y
         IN  <<[start |-> a, end |-> b]>> \o PairUp(S \ {a, b})

\* A top-level event: start and end in ms relative to navigationStart.
Events == {[start |-> s, end |-> s + d, duration |-> d] :
               s \in EventStarts, d \in EventDurations}

Timestamps ==
    {t \in [navigationStart : NavigationStarts, firstMeaningfulPaint : FirstMeaningfulPaints,
            domContentLoaded : DomContentLoadeds, traceEnd : TraceEnds] :
        /\ t.firstMeaningfulPaint > 0 => t.navigationStart <= t.firstMeaningfulPaint
        /\ t.domContentLoaded > 0 => t.navigationStart <= t.domContentLoaded}

\* Sets of at most MaxEvents events that do not overlap one another.
EventSets ==
    {S \in SUBSET Events :
        /\ Cardinality(S) <= MaxEvents
        /\ \A p, q \in S : p = q \/ p.end <= q.start \/ q.end <= p.start}

\* Event lists of a trace: ascending, inside the trace.
EventLists(t) ==
    {SortByStart(S) :
        S \in {R \in EventSets :
                  \A p \in R : p.end + ToMs(t.navigationStart) <= ToMs(t.traceEnd)}}

\* What the network recorder hands back: maximal quiet periods, ascending,
\* separated by busy time, closed at traceEnd at the latest.
NetworkPeriodLists(t) ==
    {PairUp(S) :
        S \in {R \in SUBSET {x \in NetworkInstants : x <= ToMs(t.traceEnd)} :
                  \E k \in 0..MaxNetworkPeriods : Cardinality(R) = 2 * k}}

(***************************************************************************)
(* _findNetworkQuietPeriods and _findCPUQuietPeriods                       *)
(***************************************************************************)
findNetworkQuietPeriods(recorded, tab) == recorded

RECURSIVE forEachTask(_, _, _, _)
forEachTask(tasks, index, navStartTsInMs, traceEndTsInMs) ==
    IF index > Len(tasks) THEN <<>>
    ELSE LET task == tasks[index]
             first == IF index = 1
                        THEN <<Period(0, task.start + navStartTsInMs)>>
                        ELSE <<>>
             next == IF index = Len(tasks)
                       THEN Period(task.end + navStartTsInMs, traceEndTsInMs)
                       ELSE Period(task.end + navStartTsInMs,
                                   tasks[index + 1].start + navStartTsInMs)
         IN  first \o <<next>> \o
             forEachTask(tasks, index + 1, navStartTsInMs, traceEndTsInMs)

\* Variant: the navigationStart offset of the long tasks is left out.
findCPUQuietPeriods_noOffset(tasks, tab) ==
    IF Len(tasks) = 0
      THEN <<Period(0, ToMs(tab.timestamps.traceEnd))>>
      ELSE forEachTask(tasks, 1, 0, ToMs(tab.timestamps.traceEnd))

findCPUQuietPeriods(tasks, tab) ==
    LET navStartTsInMs == ToMs(tab.timestamps.navigationStart)
        traceEndTsInMs == ToMs(tab.timestamps.traceEnd)
    IN  IF Len(tasks) = 0
          THEN <<Period(0, traceEndTsInMs)>>
          ELSE forEachTask(tasks, 1, navStartTsInMs, traceEndTsInMs)

(***************************************************************************)
(* findOverlappingQuietPeriods: filter, queues, cursors                    *)
(***************************************************************************)
\* Variant: a period ending exactly at FMP + window is kept.
isLongEnoughQuietPeriod_inclusive(period, FMPTsInMs) ==
    /\ period.end >= FMPTsInMs + REQUIRED_QUIET_WINDOW
    /\ period.end - period.start >= REQUIRED_QUIET_WINDOW

isLongEnoughQuietPeriod(period, FMPTsInMs) ==
    /\ period.end > FMPTsInMs + REQUIRED_QUIET_WINDOW
    /\ period.end - period.start >= REQUIRED_QUIET_WINDOW

filter(periods, FMPTsInMs) ==
    LET keep(p) == isLongEnoughQuietPeriod(p, FMPTsInMs)
    IN  SelectSeq(periods, keep)

\* Array.prototype.shift: the removed head (or undefined) and what is left.
shifted(queue) == IF Len(queue) = 0 THEN undefinedPeriod ELSE Head(queue)
afterShift(queue) == IF Len(queue) = 0 THEN queue ELSE Tail(queue)

\* A candidate is truthy exactly when it is an object.
Truthy(candidate) == candidate # undefinedPeriod

isLongTask(event) == event.duration >= MIN_LONG_TASK_DURATION

\* Variant: > in place of >=, so equal starts take the network branch.
cpuStartsLater_strict(cpu, net) == cpu.start > net.start

\* Line 100: the comparison that picks the branch of an iteration.
cpuStartsLater(cpu, net) == cpu.start >= net.start

\* Variant: the earlier period only has to reach the later one's start.
windowContainedBy_noWindow(later, earlier) == earlier.end >= later.start

\* Variant: a window that fits exactly is refused.
windowContainedBy_strict(later, earlier) ==
    earlier.end > later.start + REQUIRED_QUIET_WINDOW

\* Lines 102 and 114: the earlier period stays open for the whole window
\* that begins where the later one starts.
windowContainedBy(later, earlier) ==
    earlier.end >= later.start + REQUIRED_QUIET_WINDOW

\* Lines 103-108 and 115-120.
matchedInfo ==
    [cpuQuietPeriod |-> cpuCandidate, networkQuietPeriod |-> networkCandidate,
     cpuQuietPeriods |-> cpuQuietPeriods, networkQuietPeriods |-> networkQuietPeriods]

\* Variant: the two error kinds exchanged.
idleError_swapped(cpu) ==
    IF Truthy(cpu) THEN "NO_TTI_CPU_IDLE_PERIOD" ELSE "NO_TTI_NETWORK_IDLE_PERIOD"

\* Lines 127-131.
idleError(cpu) ==
    IF Truthy(cpu) THEN "NO_TTI_NETWORK_IDLE_PERIOD" ELSE "NO_TTI_CPU_IDLE_PERIOD"

\* Variant: domContentLoaded left out of the maximum.
metricTimestamp_noDCL(cpuQuietPeriod, timestamps) ==
    Max(cpuQuietPeriod.start, ToMs(timestamps.firstMeaningfulPaint)) * 1000

\* Variant: the start of the CPU quiet period alone.
metricTimestamp_cpuOnly(cpuQuietPeriod, timestamps) == cpuQuietPeriod.start * 1000

\* Lines 156-160, in microseconds.
metricTimestamp(cpuQuietPeriod, timestamps) ==
    Max(Max(cpuQuietPeriod.start, ToMs(timestamps.firstMeaningfulPaint)),
        ToMs(timestamps.domContentLoaded)) * 1000

\* Variant: navigationStart subtracted after the division instead of before.
metricTiming_lateSubtract(timestamp, timestamps) ==
    ToMs(timestamp) - timestamps.navigationStart

\* Line 161, in milliseconds.
metricTiming(timestamp, timestamps) ==
    ToMs(timestamp - timestamps.navigationStart)

(***************************************************************************)
(* Initial state: one trace handed to computeObservedMetric                *)
(***************************************************************************)
Init ==
    /\ \E t \in Timestamps :
          /\ traceOfTab = [timestamps |-> t]
          /\ topLevelEvents \in EventLists(t)
          /\ recorderQuietPeriods \in NetworkPeriodLists(t)
    /\ pc = "computeObservedMetric"
    /\ longTasks = <<>>
    /\ cpuQuietPeriods = <<>>
    /\ networkQuietPeriods = <<>>
    /\ cpuQueue = <<>>
    /\ networkQueue = <<>>
    /\ cpuCandidate = undefinedPeriod
    /\ networkCandidate = undefinedPeriod
    /\ branch = "none"
    /\ advances = 0
    /\ quietPeriodInfo = NoInfo
    /\ error = "none"
    /\ result = NoResult

inputs == <<traceOfTab, topLevelEvents, recorderQuietPeriods>>
matcher == <<longTasks, cpuQuietPeriods, networkQuietPeriods, cpuQueue, networkQueue,
             cpuCandidate, networkCandidate, branch, advances, quietPeriodInfo>>
lists == <<longTasks, cpuQuietPeriods, networkQuietPeriods>>

(***************************************************************************)
(* computeObservedMetric, lines 139-153                                    *)
(***************************************************************************)
ThrowNoFMP ==
    /\ pc = "computeObservedMetric"
    /\ Falsy(traceOfTab.timestamps.firstMeaningfulPaint)
    /\ error' = "NO_FMP"
    /\ pc' = "thrown"
    /\ UNCHANGED <<inputs, matcher, result>>

ThrowNoDCL ==
    /\ pc = "computeObservedMetric"
    /\ ~Falsy(traceOfTab.timestamps.firstMeaningfulPaint)
    /\ Falsy(traceOfTab.timestamps.domContentLoaded)
    /\ error' = "NO_DCL"
    /\ pc' = "thrown"
    /\ UNCHANGED <<inputs, matcher, result>>

\* Lines 150-153 and 83-98: long tasks, both derivations, the filter, the
\* copies and the first shift of each queue.
EnterMatcher ==
    /\ pc = "computeObservedMetric"
    /\ ~Falsy(traceOfTab.timestamps.firstMeaningfulPaint)
    /\ ~Falsy(traceOfTab.timestamps.domContentLoaded)
    /\ LET FMPTsInMs == ToMs(traceOfTab.timestamps.firstMeaningfulPaint)
           tasks == SelectSeq(topLevelEvents, isLongTask)
           net == filter(findNetworkQuietPeriods(recorderQuietPeriods, traceOfTab),
                         FMPTsInMs)
           cpu == filter(findCPUQuietPeriods(tasks, traceOfTab), FMPTsInMs)
       IN  /\ longTasks' = tasks
           /\ networkQuietPeriods' = net
           /\ cpuQuietPeriods' = cpu
           /\ cpuCandidate' = shifted(cpu)
           /\ cpuQueue' = afterShift(cpu)
           /\ networkCandidate' = shifted(net)
           /\ networkQueue' = afterShift(net)
    /\ pc' = "while"
    /\ UNCHANGED <<inputs, branch, advances, quietPeriodInfo, error, result>>

(***************************************************************************)
(* findOverlappingQuietPeriods, lines 99-131: one loop iteration per step  *)
(***************************************************************************)
InLoop == pc = "while" /\ Truthy(cpuCandidate) /\ Truthy(networkCandidate)

\* Lines 100-108.
CpuBranchMatch ==
    /\ InLoop
    /\ cpuStartsLater(cpuCandidate, networkCandidate)
    /\ windowContainedBy(cpuCandidate, networkCandidate)
    /\ branch' = "cpu"
    /\ quietPeriodInfo' = matchedInfo
    /\ pc' = "matched"
    /\ UNCHANGED <<inputs, lists, cpuQueue, networkQueue, cpuCandidate,
                   networkCandidate, advances, error, result>>

\* Lines 100-102, 109-111.
CpuBranchAdvanceNetwork ==
    /\ InLoop
    /\ cpuStartsLater(cpuCandidate, networkCandidate)
    /\ ~windowContainedBy(cpuCandidate, networkCandidate)
    /\ branch' = "cpu"
    /\ networkCandidate' = shifted(networkQueue)
    /\ networkQueue' = afterShift(networkQueue)
    /\ advances' = advances + 1
    /\ UNCHANGED <<inputs, lists, cpuQueue, cpuCandidate, quietPeriodInfo,
                   pc, error, result>>

\* Lines 112-120.
NetworkBranchMatch ==
    /\ InLoop
    /\ ~cpuStartsLater(cpuCandidate, networkCandidate)
    /\ windowContainedBy(networkCandidate, cpuCandidate)
    /\ branch' = "network"
    /\ quietPeriodInfo' = matchedInfo
    /\ pc' = "matched"
    /\ UNCHANGED <<inputs, lists, cpuQueue, networkQueue, cpuCandidate,
                   networkCandidate, advances, error, result>>

\* Lines 112-114, 121-123.
NetworkBranchAdvanceCpu ==
    /\ InLoop
    /\ ~cpuStartsLater(cpuCandidate, networkCandidate)
    /\ ~windowContainedBy(networkCandidate, cpuCandidate)
    /\ branch' = "network"
    /\ cpuCandidate' = shifted(cpuQueue)
    /\ cpuQueue' = afterShift(cpuQueue)
    /\ advances' = advances + 1
    /\ UNCHANGED <<inputs, lists, networkQueue, networkCandidate, quietPeriodInfo,
                   pc, error, result>>

\* Lines 99 and 127-131: the loop condition fails and the error is thrown.
ThrowNoIdlePeriod ==
    /\ pc = "while"
    /\ ~(Truthy(cpuCandidate) /\ Truthy(networkCandidate))
    /\ error' = idleError(cpuCandidate)
    /\ pc' = "thrown"
    /\ UNCHANGED <<inputs, matcher, result>>

(***************************************************************************)
(* computeObservedMetric, lines 154-162                                    *)
(***************************************************************************)
ReturnMetric ==
    /\ pc = "matched"
    /\ LET timestamp == metricTimestamp(quietPeriodInfo.cpuQuietPeriod,
                                        traceOfTab.timestamps)
       IN  result' = [timing |-> metricTiming(timestamp, traceOfTab.timestamps),
                      timestamp |-> timestamp]
    /\ pc' = "returned"
    /\ UNCHANGED <<inputs, matcher, error>>

Next ==
    \/ ThrowNoFMP
    \/ ThrowNoDCL
    \/ EnterMatcher
    \/ CpuBranchMatch
    \/ CpuBranchAdvanceNetwork
    \/ NetworkBranchMatch
    \/ NetworkBranchAdvanceCpu
    \/ ThrowNoIdlePeriod
    \/ ReturnMetric

Spec == Init /\ [][Next]_vars

\* The computation is synchronous and runs to completion once called.
FairSpec == Spec /\ WF_vars(Next)

(***************************************************************************)
(* Vocabulary of the properties                                            *)
(***************************************************************************)
Range(s) == {s[i] : i \in DOMAIN s}

ts == traceOfTab.timestamps
FMPms == ts.firstMeaningfulPaint \div 1000
DCLms == ts.domContentLoaded \div 1000
navStartMs == ts.navigationStart \div 1000
traceEndMs == ts.traceEnd \div 1000

Entered == pc \in {"while", "matched", "returned"} \/ (pc = "thrown" /\ error \notin {"NO_FMP", "NO_DCL"})
Matched == pc \in {"matched", "returned"}
IdleErrors == {"NO_TTI_CPU_IDLE_PERIOD", "NO_TTI_NETWORK_IDLE_PERIOD"}

\* The containment rule of the matcher, as the specification words it.
Qualifies(c, n) ==
    \/ c.start >= n.start /\ n.end >= c.start + 5000
    \/ n.start > c.start /\ c.end >= n.start + 5000

WindowStart(c, n) == IF c.start >= n.start THEN c.start ELSE n.start

\* [a, b] lies inside period p.
Inside(a, b, p) == p.start <= a /\ b <= p.end

\* The filter as the specification words it.
Kept(p) == p.end - p.start >= 5000 /\ p.end > FMPms + 5000

derivedCpu == findCPUQuietPeriods(longTasks, traceOfTab)
derivedNetwork == findNetworkQuietPeriods(recorderQuietPeriods, traceOfTab)

\* C1: a returned pair satisfies the containment rule and no qualifying pair
\* of the two filtered lists has a smaller window start.
C1_EarliestQualifyingPair ==
    Matched =>
        LET c == quietPeriodInfo.cpuQuietPeriod
            n == quietPeriodInfo.networkQuietPeriod
        IN  /\ Qualifies(c, n)
            /\ \A c2 \in Range(quietPeriodInfo.cpuQuietPeriods) :
                 \A n2 \in Range(quietPeriodInfo.networkQuietPeriods) :
                    Qualifies(c2, n2) => WindowStart(c2, n2) >= WindowStart(c, n)

\* A match found after a cursor advance, with a later qualifying pair in the lists.
C1_Witness ==
    /\ pc = "matched"
    /\ advances >= 1
    /\ \E c2 \in Range(cpuQuietPeriods) : \E n2 \in Range(networkQuietPeriods) :
          /\ Qualifies(c2, n2)
          /\ WindowStart(c2, n2) > WindowStart(cpuCandidate, networkCandidate)

\* C2 as claimed: the reported instant t (ms) is >= FMP and >= DCL and
\* [t, t + 5000] lies inside both matched periods.
C2_Original ==
    pc = "returned" =>
        LET t == result.timestamp \div 1000
        IN  /\ t >= FMPms
            /\ t >= DCLms
            /\ Inside(t, t + 5000, quietPeriodInfo.cpuQuietPeriod)
            /\ Inside(t, t + 5000, quietPeriodInfo.networkQuietPeriod)

\* C2 as amended: the reported instant (ms) is >= FMP, >= DCL and >= the start
\* of the matched CPU period, and the matched periods are mutually quiet for
\* 5000 ms from s = max(cpu.start, net.start): [s, s + 5000] lies inside both.
C2_ReportedInstantAndQuietWindow ==
    pc = "returned" =>
        LET t == result.timestamp \div 1000
            c == quietPeriodInfo.cpuQuietPeriod
            n == quietPeriodInfo.networkQuietPeriod
            s == WindowStart(c, n)
        IN  /\ t >= FMPms
            /\ t >= DCLms
            /\ t >= c.start
            /\ Inside(s, s + 5000, c)
            /\ Inside(s, s + 5000, n)

\* A success whose reported instant precedes the matched network period and
\* is set by domContentLoaded.
C2_Witness ==
    /\ pc = "returned"
    /\ result.timestamp \div 1000 < quietPeriodInfo.networkQuietPeriod.start
    /\ result.timestamp = ts.domContentLoaded
    /\ quietPeriodInfo.cpuQuietPeriod.start > 0

\* The largest element of a non-empty finite set of integers.
MaxOf(S) == CHOOSE m \in S : \A x \in S : x <= m

ScenarioA ==
    /\ ts = [navigationStart |-> 0, firstMeaningfulPaint |-> 2000000,
             domContentLoaded |-> 2500000, traceEnd |-> 10000000]
    /\ topLevelEvents = <<>>
    /\ recorderQuietPeriods = <<Period(0, 10000)>>

\* C3 as claimed: timestamp = max(cpu.start, FMP, DCL) and
\* timing = timestamp - navigationStart, all in one unit.
C3_Original ==
    pc = "returned" =>
        /\ result.timestamp = MaxOf({quietPeriodInfo.cpuQuietPeriod.start,
                                     ts.firstMeaningfulPaint, ts.domContentLoaded})
        /\ result.timing = result.timestamp - ts.navigationStart

\* C3 as amended: timestamp (microseconds, the unit of the input timestamps)
\* is 1000 * max(cpu.start, FMP / 1000, DCL / 1000) and timing (milliseconds)
\* is (timestamp - navigationStart) / 1000; scenario A with its timestamps in
\* microseconds succeeds with both matched periods [0, 10000],
\* timestamp 2500000 and timing 2500.
C3_TimestampAndTiming ==
    /\ pc = "returned" =>
          /\ result.timestamp =
                1000 * MaxOf({quietPeriodInfo.cpuQuietPeriod.start, FMPms, DCLms})
          /\ 1000 * result.timing = result.timestamp - ts.navigationStart
    /\ (ScenarioA /\ pc \in {"returned", "thrown"}) =>
          /\ pc = "returned"
          /\ quietPeriodInfo.cpuQuietPeriod = Period(0, 10000)
          /\ quietPeriodInfo.networkQuietPeriod = Period(0, 10000)
          /\ result = [timing |-> 2500, timestamp |-> 2500000]

\* Scenario A has run to its result.
C3_Witness == ScenarioA /\ pc = "returned"

\* C4 as claimed: timing >= 0 because the matched CPU quiet period starts at
\* or after navigationStart.
C4_Original ==
    pc = "returned" =>
        /\ result.timing >= 0
        /\ quietPeriodInfo.cpuQuietPeriod.start >= navStartMs

\* C4 as amended: with firstMeaningfulPaint >= navigationStart, timing is at
\* least (FMP - navigationStart) / 1000 and so never negative, also when the
\* matched CPU period is the first derived one, which starts at 0.
C4_TimingNeverNegative ==
    (pc = "returned" /\ ts.firstMeaningfulPaint >= ts.navigationStart) =>
        /\ result.timing >= FMPms - navStartMs
        /\ result.timing >= 0

\* A success on the first derived CPU period with navigationStart > 0.
C4_Witness ==
    /\ pc = "returned"
    /\ ts.navigationStart > 0
    /\ quietPeriodInfo.cpuQuietPeriod = derivedCpu[1]
    /\ quietPeriodInfo.cpuQuietPeriod.start < navStartMs

\* C5: when the matcher fails with the CPU cursor exhausted and a network
\* candidate left the kind is NO_TTI_CPU_IDLE_PERIOD; with the network cursor
\* exhausted and a CPU candidate left (an empty network list included) it is
\* NO_TTI_NETWORK_IDLE_PERIOD.
C5_ErrorNamesExhaustedCursor ==
    (pc = "thrown" /\ Entered) =>
        /\ error \in IdleErrors
        /\ (cpuCandidate = undefinedPeriod /\ networkCandidate # undefinedPeriod)
              => error = "NO_TTI_CPU_IDLE_PERIOD"
        /\ (networkCandidate = undefinedPeriod /\ cpuCandidate # undefinedPeriod)
              => error = "NO_TTI_NETWORK_IDLE_PERIOD"
        /\ (networkQuietPeriods = <<>> /\ cpuQuietPeriods # <<>>)
              => error = "NO_TTI_NETWORK_IDLE_PERIOD"

\* The CPU cursor ran out inside the loop while a network candidate remained.
C5_Witness ==
    /\ pc = "thrown"
    /\ error = "NO_TTI_CPU_IDLE_PERIOD"
    /\ advances >= 1
    /\ networkCandidate # undefinedPeriod

\* C6: a missing or zero firstMeaningfulPaint gives NO_FMP whatever the other
\* inputs; otherwise a missing or zero domContentLoaded gives NO_DCL; in both
\* cases nothing was derived or matched and no result is returned.
C6_PreconditionsFirst ==
    LET fmp == ts.firstMeaningfulPaint
        dcl == ts.domContentLoaded
        untouched == /\ longTasks = <<>>
                     /\ cpuQuietPeriods = <<>> /\ networkQuietPeriods = <<>>
                     /\ cpuCandidate = undefinedPeriod
                     /\ networkCandidate = undefinedPeriod
                     /\ quietPeriodInfo = NoInfo
                     /\ advances = 0
                     /\ result = NoResult
    IN  /\ (pc # "computeObservedMetric" /\ (fmp = undefined \/ fmp = 0)) =>
              pc = "thrown" /\ error = "NO_FMP" /\ untouched
        /\ (pc # "computeObservedMetric" /\ fmp > 0 /\ (dcl = undefined \/ dcl = 0)) =>
              pc = "thrown" /\ error = "NO_DCL" /\ untouched

\* NO_DCL was thrown for a zero domContentLoaded on a trace that has events
\* and network quiet periods.
C6_Witness ==
    /\ pc = "thrown"
    /\ error = "NO_DCL"
    /\ ts.domContentLoaded = 0
    /\ topLevelEvents # <<>>
    /\ recorderQuietPeriods # <<>>

\* The periods q and the tasks, each task moved by offset, tile [0, last]:
\* q[1], task 1, q[2], task 2, ..., q[n + 1] abut from 0 to last.
Tiles(q, tasks, offset, last) ==
    /\ Len(q) = Len(tasks) + 1
    /\ q[1].start = 0
    /\ q[Len(q)].end = last
    /\ \A i \in 1..Len(tasks) :
          /\ q[i].end = tasks[i].start + offset
          /\ q[i + 1].start = tasks[i].end + offset

WellFormed(q) ==
    /\ \A i \in 1..Len(q) : q[i].end >= q[i].start
    /\ \A i \in 1..(Len(q) - 1) :
          q[i].start <= q[i + 1].start /\ q[i].end <= q[i + 1].start

ScenarioD ==
    /\ ts.navigationStart = 0
    /\ ts.traceEnd = 10000000
    /\ Len(longTasks) = 1
    /\ longTasks[1].start = 3000
    /\ longTasks[1].end = 3100

\* C7 as claimed, every time read in milliseconds: n + 1 well-formed periods
\* that together with the long tasks exactly cover [0, traceEnd], for every
\* navigationStart.
C7_Original ==
    Entered =>
        /\ WellFormed(derivedCpu)
        /\ Tiles(derivedCpu, longTasks, 0, traceEndMs)
        /\ ScenarioD => derivedCpu = <<Period(0, 3000), Period(3100, 10000)>>

\* C7 as amended: for ascending long tasks inside the trace the n + 1 periods
\* are well formed and, together with the long tasks moved by
\* navigationStart / 1000, exactly cover [0, traceEnd / 1000]; no task gives
\* the single period [0, traceEnd / 1000]; one task [3000, 3100] with
\* navigationStart 0 and traceEnd 10000000 gives [0, 3000] and [3100, 10000].
C7_CpuQuietPeriodsTileTrace ==
    Entered =>
        /\ WellFormed(derivedCpu)
        /\ Tiles(derivedCpu, longTasks, navStartMs, traceEndMs)
        /\ longTasks = <<>> => derivedCpu = <<Period(0, traceEndMs)>>
        /\ ScenarioD => derivedCpu = <<Period(0, 3000), Period(3100, 10000)>>

\* The one-task scenario has been derived.
C7_Witness == Entered /\ ScenarioD

\* The candidates the cursors have passed, the current one and the queue
\* make up the whole list again.
CursorIn(list, candidate, queue) ==
    \E k \in 1..Len(list) :
        SubSeq(list, k, Len(list)) = <<candidate>> \o queue

\* C8: the two lists of QuietPeriodInfo are exactly the derived periods with
\* length >= 5000 and end > FMP + 5000, in their order; they keep the
\* candidates the cursors skipped, and the matched pair are members.
C8_FilteredListsReturned ==
    /\ Entered =>
          /\ cpuQuietPeriods = SelectSeq(derivedCpu, Kept)
          /\ networkQuietPeriods = SelectSeq(derivedNetwork, Kept)
    /\ Matched =>
          /\ quietPeriodInfo.cpuQuietPeriods = SelectSeq(derivedCpu, Kept)
          /\ quietPeriodInfo.networkQuietPeriods = SelectSeq(derivedNetwork, Kept)
          /\ CursorIn(quietPeriodInfo.cpuQuietPeriods,
                      quietPeriodInfo.cpuQuietPeriod, cpuQueue)
          /\ CursorIn(quietPeriodInfo.networkQuietPeriods,
                      quietPeriodInfo.networkQuietPeriod, networkQueue)
          /\ Len(quietPeriodInfo.cpuQuietPeriods)
               + Len(quietPeriodInfo.networkQuietPeriods)
             = advances + 2 + Len(cpuQueue) + Len(networkQueue)

\* A match after a skipped candidate, on lists where a period of length 5000
\* was kept and a period ending at FMP + 5000 was dropped.
C8_Witness ==
    /\ pc = "matched"
    /\ advances >= 1
    /\ \E p \in Range(cpuQuietPeriods) \cup Range(networkQuietPeriods) :
          p.end - p.start = 5000
    /\ \E p \in Range(derivedCpu) \cup Range(derivedNetwork) :
          p.end = FMPms + 5000 /\ p.end - p.start >= 5000

NoQualifyingPair ==
    \A c \in Range(cpuQuietPeriods) : \A n \in Range(networkQuietPeriods) :
        ~Qualifies(c, n)

\* An advance of a cursor drops a period that is in no qualifying pair.
AdvanceDropsDeadPeriod ==
    advances' > advances =>
        /\ networkCandidate' # networkCandidate =>
              \A c \in Range(cpuQuietPeriods) : ~Qualifies(c, networkCandidate)
        /\ cpuCandidate' # cpuCandidate =>
              \A n \in Range(networkQuietPeriods) : ~Qualifies(cpuCandidate, n)

\* C9: a 'no idle period' error is raised only when no pair of the two
\* filtered lists qualifies, an advance never drops a period of a qualifying
\* pair, there are at most len(cpu) + len(network) advances, and the
\* computation ends.
C9_MatcherComplete ==
    /\ []((pc = "thrown" /\ error \in IdleErrors) => NoQualifyingPair)
    /\ [](advances <= Len(cpuQuietPeriods) + Len(networkQuietPeriods))
    /\ [][AdvanceDropsDeadPeriod]_vars
    /\ <>(pc \in {"returned", "thrown"})

\* The matcher failed after advancing both cursors.
C9_Witness ==
    /\ pc = "thrown"
    /\ error \in IdleErrors
    /\ advances >= 2
    /\ Len(cpuQueue) < Len(cpuQuietPeriods) - 1
    /\ Len(networkQueue) < Len(networkQuietPeriods) - 1

\* C10: in a loop iteration whose candidates start together, the test made
\* is net.end >= cpu.start + 5000; the pair is returned if it holds, else the
\* network cursor advances and the CPU cursor stays.
TieStep ==
    (InLoop /\ cpuCandidate.start = networkCandidate.start) =>
        /\ branch' = "cpu"
        /\ IF networkCandidate.end >= cpuCandidate.start + 5000
             THEN /\ pc' = "matched"
                  /\ quietPeriodInfo'.cpuQuietPeriod = cpuCandidate
                  /\ quietPeriodInfo'.networkQuietPeriod = networkCandidate
             ELSE /\ pc' = "while"
                  /\ networkCandidate' = shifted(networkQueue)
                  /\ cpuCandidate' = cpuCandidate
                  /\ cpuQueue' = cpuQueue

C10_TieTakesCpuBranch == [][TieStep]_vars

\* A pair with equal, non-zero starts was returned by the CPU branch.
C10_Witness ==
    /\ pc = "matched"
    /\ branch = "cpu"
    /\ cpuCandidate.start = networkCandidate.start
    /\ cpuCandidate.start > 0

====
